---- MODULE Spec2Model ----
(***************************************************************************)
(* A model of package xserial (serial.go, serial_linux.go): one serial     *)
(* port handle (serialPort), the operating system's descriptor table and   *)
(* the device's control settings (termios), and the callers' threads, each *)
(* stepping through an operation syscall by syscall.                       *)
(*                                                                         *)
(* Conventions.                                                            *)
(*   - A uint32 flag word is the set of its set bit positions: x | y is    *)
(*     x \cup y, x &^ y is x \ y.                                          *)
(*   - An error is a string, "nil" for Go's nil.                           *)
(*   - A time.Duration is counted in whole milliseconds.                   *)
(*   - Every syscall's outcome is chosen by the environment.               *)
(***************************************************************************)
EXTENDS Integers, Sequences, FiniteSets, TLC

\* ------------------------------------------------------------------ bounds
\* The OS hands out descriptors 3..MaxFd; unix.Open fails once all are taken.
MaxFd == 4
\* len(p) of the buffers handed to Read and Write.
BufLen == 1

\* --------------------------------------------------------------- serial.go
FlowNone == 0
FlowHardware == 1
FlowSoft == 2

ErrPortNotInitialized == "port not initialized or closed"
ErrNotOpen == "port not open"
ErrAlreadyOpen == "port is already open"
ErrAccessDenied == "access denied"
ErrReadTimeout == "read port time out"

\* fmt.Errorf values of serial_linux.go
ErrParity == "invalid or not supported parity"
ErrStopBits == "invalid or not supported stop bits"
ErrFlow == "invalid or not supported flow control"
ConfigErrors == {ErrParity, ErrStopBits, ErrFlow}
ExclError(e) == "failed to get exclusive access - " \o e
NxclError(e) == "failed to release exclusive access - " \o e
SelectError(e) == "serial: could not select: " \o e

\* errno values the environment may report
EINTR == "EINTR"
EIO == "EIO"
EBADF == "EBADF"
ENOTTY == "ENOTTY"
EMFILE == "EMFILE"
ENOENT == "ENOENT"

\* ------------------------------------------------- termios flag positions
\* c_cflag (Linux): CS8 0x30, CSTOPB 0x40, CREAD 0x80, PARENB 0x100,
\* PARODD 0x200, HUPCL 0x400, CLOCAL 0x800, CMSPAR 0x40000000,
\* CRTSCTS 0x80000000.
CS8 == {4, 5}
CSTOPB == {6}
CREAD == {7}
PARENB == {8}
PARODD == {9}
HUPCL == {10}
CLOCAL == {11}
CMSPAR == {30}
CRTSCTS == {31}
\* c_iflag: IGNPAR 0x4, PARMRK 0x8, INPCK 0x10, IXON 0x400, IXOFF 0x1000.
IGNPAR == {2}
PARMRK == {3}
INPCK == {4}
IXON == {10}
IXOFF == {12}

RECURSIVE BitsFrom(_, _)
BitsFrom(n, i) ==
    IF n = 0 THEN {}
    ELSE (IF n % 2 = 1 THEN {i} ELSE {}) \cup BitsFrom(n \div 2, i + 1)
\* uint32(n) as a flag word
Bits(n) == BitsFrom(n, 0)

\* unix.B19200, the default rate of getTermiosFor
B19200 == 14
\* baudRates: requested rate -> unix.Bxxx (Linux termbits: B50 = 1 ..
\* B38400 = 15, B57600 = 0x1001 .. B4000000 = 0x100f)
baudRates ==
    50 :> 1 @@ 75 :> 2 @@ 110 :> 3 @@ 134 :> 4 @@ 150 :> 5 @@ 200 :> 6 @@
    300 :> 7 @@ 600 :> 8 @@ 1200 :> 9 @@ 1800 :> 10 @@ 2400 :> 11 @@
    4800 :> 12 @@ 9600 :> 13 @@ 19200 :> B19200 @@ 38400 :> 15 @@
    57600 :> 4097 @@ 115200 :> 4098 @@ 230400 :> 4099 @@ 460800 :> 4100 @@
    500000 :> 4101 @@ 576000 :> 4102 @@ 921600 :> 4103 @@ 1000000 :> 4104 @@
    1152000 :> 4105 @@ 1500000 :> 4106 @@ 2000000 :> 4107 @@
    2500000 :> 4108 @@ 3000000 :> 4109 @@ 3500000 :> 4110 @@ 4000000 :> 4111

\* The zero value of unix.Termios (the fields the package touches, and
\* Oflag/Lflag, which it must carry through unchanged).
ZeroTermios ==
    [Iflag |-> {}, Oflag |-> {}, Cflag |-> {}, Lflag |-> {},
     Ispeed |-> 0, Ospeed |-> 0, VMIN |-> 0, VTIME |-> 0]

\* The zero value of Config.
ZeroConfig ==
    [Name |-> "", Baud |-> 0, ReadTimeout |-> 0, Parity |-> "",
     StopBits |-> 0, Flow |-> 0]

\* --------------------------------------------------- getTermiosFor's parts
\* A parity switch whose mark case was copied from space and kept its bits.
ParityFor_MarkAsSpace(t, parity) ==
    LET c == [t EXCEPT !.Cflag = @ \ (PARENB \cup PARODD \cup CMSPAR)] IN
    CASE parity = "N" -> [t |-> c, err |-> "nil"]
      [] parity = "E" -> [t |-> [c EXCEPT !.Cflag = @ \cup PARENB], err |-> "nil"]
      [] parity = "O" ->
            [t |-> [c EXCEPT !.Cflag = @ \cup PARENB \cup PARODD], err |-> "nil"]
      [] parity \in {"S", "M"} ->
            [t |-> [c EXCEPT !.Cflag = @ \cup PARENB \cup CMSPAR], err |-> "nil"]
      [] parity = "G" ->
            [t |-> [c EXCEPT
                      !.Cflag = ((@ \cup CMSPAR) \ PARODD) \cup PARENB,
                      !.Iflag = (@ \cup INPCK \cup PARMRK) \ IGNPAR],
             err |-> "nil"]
      [] OTHER -> [t |-> ZeroTermios, err |-> ErrParity]

\* The parity switch of getTermiosFor, after its clearing of the parity bits.
ParityFor(t, parity) ==
    LET c == [t EXCEPT !.Cflag = @ \ (PARENB \cup PARODD \cup CMSPAR)] IN
    CASE parity = "N" -> [t |-> c, err |-> "nil"]
      [] parity = "E" -> [t |-> [c EXCEPT !.Cflag = @ \cup PARENB], err |-> "nil"]
      [] parity = "O" ->
            [t |-> [c EXCEPT !.Cflag = @ \cup PARENB \cup PARODD], err |-> "nil"]
      [] parity = "S" ->
            [t |-> [c EXCEPT !.Cflag = @ \cup PARENB \cup CMSPAR], err |-> "nil"]
      [] parity = "M" ->
            [t |-> [c EXCEPT !.Cflag = @ \cup PARENB \cup PARODD \cup CMSPAR],
             err |-> "nil"]
      [] parity = "G" ->
            [t |-> [c EXCEPT
                      !.Cflag = ((@ \cup CMSPAR) \ PARODD) \cup PARENB,
                      !.Iflag = (@ \cup INPCK \cup PARMRK) \ IGNPAR],
             err |-> "nil"]
      [] OTHER -> [t |-> ZeroTermios, err |-> ErrParity]

\* The stop-bit switch of getTermiosFor.
StopBitsFor(t, stopbits) ==
    LET c == [t EXCEPT !.Cflag = @ \ CSTOPB] IN
    CASE stopbits \in {0, 1} -> [t |-> c, err |-> "nil"]
      [] stopbits = 2 -> [t |-> [c EXCEPT !.Cflag = @ \cup CSTOPB], err |-> "nil"]
      [] OTHER -> [t |-> ZeroTermios, err |-> ErrStopBits]

\* A flow-control switch whose software case sets nothing.
FlowFor_SoftInert(t, flow) ==
    LET c == [t EXCEPT !.Cflag = @ \ CRTSCTS, !.Iflag = @ \ (IXON \cup IXOFF)] IN
    CASE flow \in {FlowNone, FlowSoft} -> [t |-> c, err |-> "nil"]
      [] flow = FlowHardware ->
            [t |-> [c EXCEPT !.Cflag = @ \cup CRTSCTS], err |-> "nil"]
      [] OTHER -> [t |-> ZeroTermios, err |-> ErrFlow]

\* The flow-control switch of getTermiosFor.
FlowFor(t, flow) ==
    LET c == [t EXCEPT !.Cflag = @ \ CRTSCTS, !.Iflag = @ \ (IXON \cup IXOFF)] IN
    CASE flow = FlowNone -> [t |-> c, err |-> "nil"]
      [] flow = FlowSoft ->
            [t |-> [c EXCEPT !.Iflag = @ \cup IXON \cup IXOFF], err |-> "nil"]
      [] flow = FlowHardware ->
            [t |-> [c EXCEPT !.Cflag = @ \cup CRTSCTS], err |-> "nil"]
      [] OTHER -> [t |-> ZeroTermios, err |-> ErrFlow]

\* The baud lookup of getTermiosFor: 0 is the default, a rate with no table
\* entry leaves baud at its zero value.
BaudFor(baud) ==
    IF baud = 0 THEN B19200
    ELSE IF baud \in DOMAIN baudRates THEN baudRates[baud] ELSE 0

\* getTermiosFor(cfg): (unix.Termios, error)
getTermiosFor(cfg) ==
    LET baud == BaudFor(cfg.Baud)
        t0 == [ZeroTermios EXCEPT
                 !.Cflag = CREAD \cup CLOCAL \cup CS8 \cup Bits(baud),
                 !.Iflag = IGNPAR,
                 !.Ispeed = baud, !.Ospeed = baud]
        p == ParityFor(t0, cfg.Parity)
        sb == StopBitsFor(p.t, cfg.StopBits)
        fl == FlowFor(sb.t, cfg.Flow)
    IN  IF p.err # "nil" THEN p
        ELSE IF sb.err # "nil" THEN sb
        ELSE fl

\* ------------------------------------------------- SetParity's bit rewrite
\* The parity switch of SetParity (it has no case "G").
SetParityBits(t, parity) ==
    LET c == [t EXCEPT !.Cflag = @ \ (PARENB \cup PARODD \cup CMSPAR)] IN
    CASE parity = "N" -> [t |-> c, err |-> "nil"]
      [] parity = "E" -> [t |-> [c EXCEPT !.Cflag = @ \cup PARENB], err |-> "nil"]
      [] parity = "O" ->
            [t |-> [c EXCEPT !.Cflag = @ \cup PARENB \cup PARODD], err |-> "nil"]
      [] parity = "S" ->
            [t |-> [c EXCEPT !.Cflag = @ \cup PARENB \cup CMSPAR], err |-> "nil"]
      [] parity = "M" ->
            [t |-> [c EXCEPT !.Cflag = @ \cup PARENB \cup PARODD \cup CMSPAR],
             err |-> "nil"]
      [] OTHER -> [t |-> t, err |-> ErrParity]

\* The stop-bit switch of SetParity.
SetStopBits(t, stopbits) ==
    LET c == [t EXCEPT !.Cflag = @ \ CSTOPB] IN
    CASE stopbits \in {0, 1} -> [t |-> c, err |-> "nil"]
      [] stopbits = 2 -> [t |-> [c EXCEPT !.Cflag = @ \cup CSTOPB], err |-> "nil"]
      [] OTHER -> [t |-> t, err |-> ErrStopBits]

\* Lines 321-344 of SetParity: the settings to write back, or the error.
SetParityTermios(t, parity, stopbits) ==
    LET p == SetParityBits(t, parity)
        sb == SetStopBits(p.t, stopbits)
    IN  IF p.err # "nil" THEN p ELSE sb

\* ------------------------------------------------------ Read's timeout
\* time.Millisecond, in nanoseconds.
Millisecond == 1000000
\* ReadTimeout * time.Millisecond: both factors are nanosecond counts, so the
\* product of a duration of d ms is d * 1e6 * 1e6 ns, that is d * 1e6 ms.
ScaledTimeout(d) == d * Millisecond
\* unix.NsecToTimeval of a duration of ms milliseconds.
NsecToTimeval(ms) == [Sec |-> ms \div 1000, Usec |-> (ms % 1000) * 1000]
\* The *unix.Timeval Read builds (nil when no timeout is configured).
NoTimeval == [Sec |-> -1, Usec |-> -1]
ReadTimeval(conf) ==
    IF conf.ReadTimeout > 0
    THEN NsecToTimeval(ScaledTimeout(conf.ReadTimeout))
    ELSE NoTimeval
\* The wait a Timeval stands for, in milliseconds.
TimevalMs(tv) == tv.Sec * 1000 + tv.Usec \div 1000

\* ------------------------------------------------------------------ state
VARIABLES
    s,            \* the serialPort: [fd, opened, conf]
    mx,           \* s.mx is locked
    held,         \* a caller holds the handle
    live,         \* the process's descriptors open on the device
    excl,         \* descriptors on which TIOCEXCL succeeded and TIOCNXCL not yet
    dev,          \* the device's control settings
    acquired,     \* the descriptors unix.Open gave to this handle
    closedSince,  \* a Close has returned and no Open has probed since
    th,           \* per thread: the operation in progress and its locals
    ret,          \* per thread: what its last operation returned
    scn           \* the scenario: the calling threads and their inputs

vars == <<s, mx, held, live, excl, dev, acquired, closedSince, th, ret, scn>>

Threads == {1, 2}
\* stdin, stdout, stderr: open, and not the device
StdFds == {0, 1, 2}
\* the descriptors unix.Open can return
DevFds == 3..MaxFd

\* The inputs the callers choose from.
DevName == "/dev/ttyS0"
Bauds == {9600, 1234}
Timeouts == {0, 200}
Parities == {"N", "E", "G", "Z"}
StopBitsArgs == {1, 2, 3}
Flows == {FlowNone, FlowHardware, 3}
\* 9600 8-N-1, no flow control, no read timeout
BaseConfig ==
    [Name |-> DevName, Baud |-> 9600, ReadTimeout |-> 0, Parity |-> "N",
     StopBits |-> 1, Flow |-> FlowNone]
\* The configurations handed to OpenPort: BaseConfig with one field changed.
Configs ==
    {[BaseConfig EXCEPT !.Baud = b] : b \in Bauds}
    \cup {[BaseConfig EXCEPT !.ReadTimeout = d] : d \in Timeouts}
    \cup {[BaseConfig EXCEPT !.Parity = p] : p \in Parities}
    \cup {[BaseConfig EXCEPT !.StopBits = sb] : sb \in StopBitsArgs}
    \cup {[BaseConfig EXCEPT !.Flow = f] : f \in Flows}
\* The arguments handed to SetParity.
ParityArgs ==
    {<<p, 1>> : p \in Parities} \cup {<<"N", sb>> : sb \in StopBitsArgs}

\* &serialPort{}
FreshPort == [fd |-> 0, opened |-> FALSE, conf |-> ZeroConfig]

\* The device's settings before the package writes any.
DevInit ==
    [ZeroTermios EXCEPT !.Cflag = CS8 \cup CREAD \cup HUPCL \cup Bits(13),
                        !.Oflag = {0}, !.Lflag = {1, 3},
                        !.Ispeed = 13, !.Ospeed = 13, !.VMIN = 1]

\* What an operation sees when it is called.
Snapshot ==
    [s |-> s, live |-> live, excl |-> excl, dev |-> dev,
     closedSince |-> closedSince]

\* The arguments a defer statement captured: none yet.
NoDefer == [fd |-> 0, err |-> "nil"]

IdleThread ==
    [pc |-> "idle", stack |-> <<>>, op |-> "", cfg |-> ZeroConfig,
     parity |-> "", stopbits |-> 0, fd |-> 0, tv |-> NoTimeval,
     t |-> ZeroTermios, err |-> "nil", n |-> 0,
     dOpen |-> NoDefer, dPort |-> NoDefer,
     sys |-> {}, osfail |-> FALSE, got |-> 0, waited |-> NoTimeval,
     pre |-> [s |-> FreshPort, live |-> {}, excl |-> {}, dev |-> ZeroTermios,
              closedSince |-> FALSE]]

\* No operation has returned (or one is in progress).
NoRet == [IdleThread EXCEPT !.pc = "none"]

Idle(t) == th[t].pc = "idle"
Quiescent == \A t \in Threads : Idle(t)
\* A method of the handle may be called by t.
CanCall(t) == t \in scn.procs /\ held /\ Idle(t)

\* The locals of an operation that starts now.
Begin(op) == [IdleThread EXCEPT !.op = op, !.pre = Snapshot]

\* The thread's record after a syscall `call` on descriptor fd that returned e.
Sys(r, call, fd, e) ==
    [r EXCEPT !.sys = @ \cup {[call |-> call, fd |-> fd]},
              !.osfail = @ \/ e # "nil"]

\* The operation returns e to the caller.
Done(t, r, e) ==
    /\ th' = [th EXCEPT ![t] = IdleThread]
    /\ ret' = [ret EXCEPT ![t] = [r EXCEPT !.pc = "returned", !.err = e]]

\* A function returns e: to the function that called it, or to the caller.
Return(t, r, e) ==
    IF r.stack = <<>>
    THEN Done(t, r, e)
    ELSE /\ th' = [th EXCEPT ![t] = [r EXCEPT !.pc = Head(r.stack),
                                              !.stack = Tail(r.stack),
                                              !.err = e]]
         /\ UNCHANGED ret

\* ------------------------------------------------------- the environment
IoctlOutcomes(fd) ==
    IF fd \in live THEN {"nil", EIO}
    ELSE IF fd \in StdFds THEN {"nil", ENOTTY} ELSE {EBADF}
\* unix.Close releases a live descriptor whatever it returns (Linux).
CloseOutcomes(fd) ==
    IF fd \in live THEN {"nil", EIO}
    ELSE IF fd \in StdFds THEN {"nil"} ELSE {EBADF}
\* unix.Read / unix.Write: a length and nil, or -1 and an errno.
TransferOutcomes(fd) ==
    IF fd \in live \cup StdFds
    THEN {[n |-> k, err |-> "nil"] : k \in 0..BufLen}
         \cup {[n |-> -1, err |-> e] : e \in {EINTR, EIO}}
    ELSE {[n |-> -1, err |-> EBADF]}
\* unix.Select: the descriptor is readable, the timeout ran out, or an errno.
SelectOutcomes(fd) ==
    IF fd \in live \cup StdFds THEN {"ready", "timeout", EINTR, "ENOMEM"}
    ELSE {EBADF}
\* exec.Command("lsof", "-t", name).Run(): nil when some process holds the
\* device, "exit status 1" when none does, anything else when lsof failed.
LsofOutcomes == {"nil", "exit status 1", "exit status 2"}
\* unix.Open: the lowest free descriptor, or an errno.
FreeFds == DevFds \ live
LowestFree == CHOOSE fd \in FreeFds : \A g \in FreeFds : fd <= g
OpenOutcomes == IF FreeFds = {} THEN {EMFILE} ELSE {"nil", ENOENT}

\* ------------------------------------------------------ deferred cleanups
\* The condition of the "Auto Close on Errors" closures of Open and openPort,
\* on the arguments the defer statement evaluated.
AutoClose(fd, err) == fd # 0 /\ err # "nil"

\* The handle and the descriptor table after such a closure ran.
AfterAutoClose(d, h, lv, ex) ==
    IF AutoClose(d.fd, d.err)
    THEN [s |-> [h EXCEPT !.fd = 0, !.opened = FALSE],
          live |-> lv \ {d.fd}, excl |-> ex \ {d.fd}]
    ELSE [s |-> h, live |-> lv, excl |-> ex]

\* A Close whose deferred closure forgets s.opened = false.
CloseDeferred_KeepsOpened(h) == [h EXCEPT !.fd = 0]

\* Close's deferred closure: s.fd = 0; s.opened = false.
CloseDeferred(h) == [h EXCEPT !.fd = 0, !.opened = FALSE]

\* n < 0 => n = 0
Normalize(n) == IF n < 0 THEN 0 ELSE n

\* ------------------------------------------------------------------- Init
Init ==
    /\ s = FreshPort
    /\ mx = FALSE
    /\ held = TRUE
    /\ live = {}
    /\ excl = {}
    /\ dev = DevInit
    /\ acquired = {}
    /\ closedSince = FALSE
    /\ th = [t \in Threads |-> IdleThread]
    /\ ret = [t \in Threads |-> NoRet]
    /\ scn = [procs |-> {1}, configs |-> Configs, pargs |-> ParityArgs]

\* --------------------------------------------------------------- openPort
\* OpenPort(cfg): a new serialPort, getTermiosFor, then the call of s.Open.
CallOpenPort(t, cfg) ==
    /\ t \in scn.procs
    /\ Quiescent
    /\ ~held \/ ~s.opened
    /\ LET r == getTermiosFor(cfg)
           b == [IdleThread EXCEPT
                   !.op = "OpenPort", !.cfg = cfg, !.t = r.t,
                   !.pre = [Snapshot EXCEPT !.s = FreshPort,
                                            !.closedSince = FALSE]]
       IN  /\ s' = FreshPort
           /\ mx' = FALSE
           /\ held' = FALSE
           /\ acquired' = {}
           /\ closedSince' = FALSE
           /\ IF r.err # "nil"
              THEN Done(t, b, r.err)
              ELSE /\ th' = [th EXCEPT ![t] =
                               [b EXCEPT !.pc = "o_lock",
                                         !.stack = <<"op_afterOpen">>]]
                   /\ ret' = [ret EXCEPT ![t] = NoRet]
    /\ UNCHANGED <<live, excl, dev, scn>>

\* openPort after s.Open: return its error, or defer the auto close (its
\* arguments s.fd and err are evaluated here) and call s.SetTermios(t).
OpenPortAfterOpen(t) ==
    /\ th[t].pc = "op_afterOpen"
    /\ IF th[t].err # "nil"
       THEN Done(t, th[t], th[t].err)
       ELSE /\ th' = [th EXCEPT ![t] =
                        [@ EXCEPT !.pc = "st_lock",
                                  !.stack = <<"op_afterSet">>,
                                  !.dPort = [fd |-> s.fd, err |-> th[t].err]]]
            /\ UNCHANGED ret
    /\ UNCHANGED <<s, mx, held, live, excl, dev, acquired, closedSince, scn>>

\* openPort after s.SetTermios: return its error (the deferred closure runs),
\* or store the configuration.
OpenPortAfterSet(t) ==
    /\ th[t].pc = "op_afterSet"
    /\ IF th[t].err # "nil"
       THEN LET a == AfterAutoClose(th[t].dPort, s, live, excl) IN
            /\ s' = a.s
            /\ live' = a.live
            /\ excl' = a.excl
            /\ Done(t, th[t], th[t].err)
       ELSE /\ s' = [s EXCEPT !.conf = th[t].cfg]
            /\ th' = [th EXCEPT ![t].pc = "op_nonblock"]
            /\ UNCHANGED <<live, excl, ret>>
    /\ UNCHANGED <<mx, held, dev, acquired, closedSince, scn>>

\* unix.SetNonblock(s.fd, false), then the return of openPort (the deferred
\* closure runs on every return).
OpenPortNonblock(t) ==
    /\ th[t].pc = "op_nonblock"
    /\ \E e \in IoctlOutcomes(s.fd) :
         LET r == Sys(th[t], "fcntl", s.fd, e)
             a == AfterAutoClose(r.dPort, s, live, excl)
         IN  /\ s' = a.s
             /\ live' = a.live
             /\ excl' = a.excl
             /\ held' = (e = "nil")
             /\ Done(t, r, e)
    /\ UNCHANGED <<mx, dev, acquired, closedSince, scn>>

\* ------------------------------------------------------------------- Open
\* s.Open(name) called on the handle directly.
CallOpen(t) ==
    /\ CanCall(t)
    /\ th' = [th EXCEPT ![t] = [Begin("Open") EXCEPT !.pc = "o_lock"]]
    /\ ret' = [ret EXCEPT ![t] = NoRet]
    /\ UNCHANGED <<s, mx, held, live, excl, dev, acquired, closedSince, scn>>

\* s.mx.Lock(); if s.opened
OpenLock(t) ==
    /\ th[t].pc = "o_lock"
    /\ ~mx
    /\ mx' = TRUE
    /\ th' = [th EXCEPT ![t].pc = IF s.opened THEN "o_unlock" ELSE "o_lsof"]
    /\ UNCHANGED <<s, held, live, excl, dev, acquired, closedSince, ret, scn>>

\* An Open that calls the forced Close without releasing the lock first.
OpenUnlockForClose_KeepsLock(t) ==
    /\ th[t].pc = "o_unlock"
    /\ th' = [th EXCEPT ![t] = [@ EXCEPT !.pc = "c_lock",
                                         !.stack = <<"o_relock">> \o @]]
    /\ UNCHANGED <<s, mx, held, live, excl, dev, acquired, closedSince, ret, scn>>

\* s.mx.Unlock(); s.Close()
OpenUnlockForClose(t) ==
    /\ th[t].pc = "o_unlock"
    /\ mx' = FALSE
    /\ th' = [th EXCEPT ![t] = [@ EXCEPT !.pc = "c_lock",
                                         !.stack = <<"o_relock">> \o @]]
    /\ UNCHANGED <<s, held, live, excl, dev, acquired, closedSince, ret, scn>>

\* s.mx.Lock() after the forced Close, whose result is dropped
OpenRelock(t) ==
    /\ th[t].pc = "o_relock"
    /\ ~mx
    /\ mx' = TRUE
    /\ th' = [th EXCEPT ![t].pc = "o_lsof"]
    /\ UNCHANGED <<s, held, live, excl, dev, acquired, closedSince, ret, scn>>

\* exec.Command("lsof", "-t", name).Run()
OpenProbe(t) ==
    /\ th[t].pc = "o_lsof"
    /\ closedSince' = FALSE
    /\ \E out \in LsofOutcomes :
         LET r == [th[t] EXCEPT !.sys = @ \cup {[call |-> "lsof", fd |-> -1]}]
         IN  IF out = "exit status 1"
             THEN /\ th' = [th EXCEPT ![t] = [r EXCEPT !.pc = "o_open"]]
                  /\ UNCHANGED <<mx, ret>>
             ELSE /\ mx' = FALSE
                  /\ Return(t, r, IF out = "nil" THEN ErrAlreadyOpen
                                  ELSE ErrAccessDenied)
    /\ UNCHANGED <<s, held, live, excl, dev, acquired, scn>>

\* unix.Open; s.fd = fd; s.opened = true; the defer statement of the auto
\* close, whose arguments fd and err are evaluated here.
OpenSyscall(t) ==
    /\ th[t].pc = "o_open"
    /\ \E out \in OpenOutcomes :
         IF out = "nil"
         THEN LET fd == LowestFree
                  r == [Sys(th[t], "open", fd, out) EXCEPT
                          !.fd = fd, !.err = out, !.got = fd,
                          !.dOpen = [fd |-> fd, err |-> out],
                          !.pc = "o_excl"]
              IN  /\ s' = [s EXCEPT !.fd = fd, !.opened = TRUE]
                  /\ live' = live \cup {fd}
                  /\ acquired' = acquired \cup {fd}
                  /\ th' = [th EXCEPT ![t] = r]
                  /\ UNCHANGED <<mx, ret>>
         ELSE /\ mx' = FALSE
              /\ Return(t, Sys(th[t], "open", -1, out), out)
              /\ UNCHANGED <<s, live, acquired>>
    /\ UNCHANGED <<held, excl, dev, closedSince, scn>>

\* ioctl(fd, TIOCEXCL), then the return of Open: the deferred auto close,
\* then the deferred Unlock.
OpenExclusive(t) ==
    /\ th[t].pc = "o_excl"
    /\ \E e \in IoctlOutcomes(th[t].fd) :
         LET r == Sys(th[t], "ioctl TIOCEXCL", th[t].fd, e)
             result == IF e # "nil" THEN ExclError(e) ELSE r.err
             ex == IF e = "nil" /\ r.fd \in live THEN excl \cup {r.fd} ELSE excl
             a == AfterAutoClose(r.dOpen, s, live, ex)
         IN  /\ s' = a.s
             /\ live' = a.live
             /\ excl' = a.excl
             /\ mx' = FALSE
             /\ Return(t, r, result)
    /\ UNCHANGED <<held, dev, acquired, closedSince, scn>>

\* ------------------------------------------------------------------ Close
CallClose(t) ==
    /\ CanCall(t)
    /\ th' = [th EXCEPT ![t] = [Begin("Close") EXCEPT !.pc = "c_lock"]]
    /\ ret' = [ret EXCEPT ![t] = NoRet]
    /\ UNCHANGED <<s, mx, held, live, excl, dev, acquired, closedSince, scn>>

\* s.mx.Lock(); if !s.opened { return ErrPortNotInitialized }
CloseLock(t) ==
    /\ th[t].pc = "c_lock"
    /\ ~mx
    /\ IF ~s.opened
       THEN /\ Return(t, th[t], ErrPortNotInitialized)
            /\ closedSince' = TRUE
            /\ UNCHANGED mx
       ELSE /\ mx' = TRUE
            /\ th' = [th EXCEPT ![t].pc = "c_nxcl"]
            /\ UNCHANGED <<ret, closedSince>>
    /\ UNCHANGED <<s, held, live, excl, dev, acquired, scn>>

\* ioctl(s.fd, TIOCNXCL); on failure Close returns at once: its deferred
\* closure resets the handle, the deferred Unlock follows.
CloseRelease(t) ==
    /\ th[t].pc = "c_nxcl"
    /\ \E e \in IoctlOutcomes(s.fd) :
         LET r == Sys(th[t], "ioctl TIOCNXCL", s.fd, e) IN
         IF e # "nil"
         THEN /\ s' = CloseDeferred(s)
              /\ mx' = FALSE
              /\ closedSince' = TRUE
              /\ Return(t, r, NxclError(e))
              /\ UNCHANGED excl
         ELSE /\ excl' = excl \ {s.fd}
              /\ th' = [th EXCEPT ![t] = [r EXCEPT !.pc = "c_close"]]
              /\ UNCHANGED <<s, mx, closedSince, ret>>
    /\ UNCHANGED <<held, live, dev, acquired, scn>>

\* return unix.Close(s.fd), the deferred reset and Unlock
CloseSyscall(t) ==
    /\ th[t].pc = "c_close"
    /\ \E e \in CloseOutcomes(s.fd) :
         /\ live' = live \ {s.fd}
         /\ excl' = excl \ {s.fd}
         /\ s' = CloseDeferred(s)
         /\ mx' = FALSE
         /\ closedSince' = TRUE
         /\ Return(t, Sys(th[t], "close", s.fd, e), e)
    /\ UNCHANGED <<held, dev, acquired, scn>>

\* ------------------------------------------------- SetTermios / GetTermios
\* s.mx.Lock(); if !s.opened { return ErrNotOpen }
SetTermiosLock(t) ==
    /\ th[t].pc = "st_lock"
    /\ ~mx
    /\ IF ~s.opened
       THEN /\ Return(t, th[t], ErrNotOpen)
            /\ UNCHANGED mx
       ELSE /\ mx' = TRUE
            /\ th' = [th EXCEPT ![t].pc = "st_ioctl"]
            /\ UNCHANGED ret
    /\ UNCHANGED <<s, held, live, excl, dev, acquired, closedSince, scn>>

\* ioctl(s.fd, TCSETS, &t) and the return of SetTermios
SetTermiosIoctl(t) ==
    /\ th[t].pc = "st_ioctl"
    /\ \E e \in IoctlOutcomes(s.fd) :
         /\ dev' = IF e = "nil" /\ s.fd \in live THEN th[t].t ELSE dev
         /\ mx' = FALSE
         /\ Return(t, Sys(th[t], "ioctl TCSETS", s.fd, e), e)
    /\ UNCHANGED <<s, held, live, excl, acquired, closedSince, scn>>

\* s.mx.Lock(); if !s.opened { return t, ErrNotOpen }
GetTermiosLock(t) ==
    /\ th[t].pc = "gt_lock"
    /\ ~mx
    /\ IF ~s.opened
       THEN /\ Return(t, th[t], ErrNotOpen)
            /\ UNCHANGED mx
       ELSE /\ mx' = TRUE
            /\ th' = [th EXCEPT ![t].pc = "gt_ioctl"]
            /\ UNCHANGED ret
    /\ UNCHANGED <<s, held, live, excl, dev, acquired, closedSince, scn>>

\* ioctl(s.fd, TCGETS, &t) and the return of GetTermios
GetTermiosIoctl(t) ==
    /\ th[t].pc = "gt_ioctl"
    /\ \E e \in IoctlOutcomes(s.fd) :
         LET r == Sys(th[t], "ioctl TCGETS", s.fd, e) IN
         /\ mx' = FALSE
         /\ Return(t, [r EXCEPT !.t = IF e = "nil" THEN dev ELSE ZeroTermios], e)
    /\ UNCHANGED <<s, held, live, excl, dev, acquired, closedSince, scn>>

\* -------------------------------------------------------------- SetParity
CallSetParity(t, parity, stopbits) ==
    /\ CanCall(t)
    /\ th' = [th EXCEPT ![t] =
                [Begin("SetParity") EXCEPT
                   !.parity = parity, !.stopbits = stopbits,
                   !.pc = "gt_lock", !.stack = <<"sp_afterGet">>]]
    /\ ret' = [ret EXCEPT ![t] = NoRet]
    /\ UNCHANGED <<s, mx, held, live, excl, dev, acquired, closedSince, scn>>

\* SetParity after s.GetTermios: return its error, or rewrite the parity and
\* stop bits (an invalid symbol returns here) and call s.SetTermios(t).
SetParityRewrite(t) ==
    /\ th[t].pc = "sp_afterGet"
    /\ LET r == SetParityTermios(th[t].t, th[t].parity, th[t].stopbits) IN
       IF th[t].err # "nil"
       THEN Done(t, th[t], th[t].err)
       ELSE IF r.err # "nil"
       THEN Done(t, th[t], r.err)
       ELSE /\ th' = [th EXCEPT ![t] =
                        [@ EXCEPT !.t = r.t, !.pc = "st_lock",
                                  !.stack = <<"sp_afterSet">>]]
            /\ UNCHANGED ret
    /\ UNCHANGED <<s, mx, held, live, excl, dev, acquired, closedSince, scn>>

\* SetParity after s.SetTermios: return its error, or store the parity and
\* the stop bits in s.conf.
SetParityStore(t) ==
    /\ th[t].pc = "sp_afterSet"
    /\ IF th[t].err # "nil"
       THEN UNCHANGED s
       ELSE s' = [s EXCEPT !.conf.Parity = th[t].parity,
                           !.conf.StopBits = th[t].stopbits]
    /\ Done(t, th[t], th[t].err)
    /\ UNCHANGED <<mx, held, live, excl, dev, acquired, closedSince, scn>>

\* ------------------------------------------------------------------- Read
\* Read up to its Lock: fd := s.fd, and the Timeval when s.conf.ReadTimeout > 0.
CallRead(t) ==
    /\ CanCall(t)
    /\ th' = [th EXCEPT ![t] =
                [Begin("Read") EXCEPT !.fd = s.fd, !.tv = ReadTimeval(s.conf),
                                      !.pc = "r_lock"]]
    /\ ret' = [ret EXCEPT ![t] = NoRet]
    /\ UNCHANGED <<s, mx, held, live, excl, dev, acquired, closedSince, scn>>

\* A Read that lost its opened check.
ReadNotOpen_Never(h) == FALSE

\* The check Read makes once it holds the lock.
ReadNotOpen(h) == ~h.opened

\* A Read that goes on without waiting for the lock.
ReadLock_NoWait(t) ==
    /\ th[t].pc = "r_lock"
    /\ IF ReadNotOpen(s)
       THEN /\ Return(t, th[t], ErrNotOpen)
            /\ UNCHANGED mx
       ELSE /\ mx' = TRUE
            /\ th' = [th EXCEPT ![t].pc =
                        IF s.conf.ReadTimeout > 0 THEN "r_select" ELSE "r_read"]
            /\ UNCHANGED ret
    /\ UNCHANGED <<s, held, live, excl, dev, acquired, closedSince, scn>>

\* s.mx.Lock(); if !s.opened { return 0, ErrNotOpen }; the timeout branch
ReadLock(t) ==
    /\ th[t].pc = "r_lock"
    /\ ~mx
    /\ IF ReadNotOpen(s)
       THEN /\ Return(t, th[t], ErrNotOpen)
            /\ UNCHANGED mx
       ELSE /\ mx' = TRUE
            /\ th' = [th EXCEPT ![t].pc =
                        IF s.conf.ReadTimeout > 0 THEN "r_select" ELSE "r_read"]
            /\ UNCHANGED ret
    /\ UNCHANGED <<s, held, live, excl, dev, acquired, closedSince, scn>>

\* unixSelect(fd+1, &rfds, nil, nil, tv) in its retry loop, and the
\* fdisset test after it
ReadSelect(t) ==
    /\ th[t].pc = "r_select"
    /\ \E out \in SelectOutcomes(th[t].fd) :
         LET r == Sys(th[t], "select", th[t].fd,
                      IF out \in {"ready", "timeout"} THEN "nil" ELSE out)
         IN  CASE out = EINTR ->
                    /\ th' = [th EXCEPT ![t] = r]
                    /\ UNCHANGED <<mx, ret>>
               [] out = "ready" ->
                    /\ th' = [th EXCEPT ![t] = [r EXCEPT !.pc = "r_read1"]]
                    /\ UNCHANGED <<mx, ret>>
               [] out = "timeout" ->
                    /\ mx' = FALSE
                    /\ Return(t, [r EXCEPT !.waited = r.tv], ErrReadTimeout)
               [] OTHER ->
                    /\ mx' = FALSE
                    /\ Return(t, r, SelectError(out))
    /\ UNCHANGED <<s, held, live, excl, dev, acquired, closedSince, scn>>

\* The timeout path's n, err = unix.Read(fd, p); return
ReadOnce(t) ==
    /\ th[t].pc = "r_read1"
    /\ \E out \in TransferOutcomes(th[t].fd) :
         /\ mx' = FALSE
         /\ Return(t, [Sys(th[t], "read", th[t].fd, out.err) EXCEPT !.n = out.n],
                   out.err)
    /\ UNCHANGED <<s, held, live, excl, dev, acquired, closedSince, scn>>

\* The no-timeout path's loop around unix.Read(s.fd, p)
ReadLoop(t) ==
    /\ th[t].pc = "r_read"
    /\ \E out \in TransferOutcomes(s.fd) :
         LET r == Sys(th[t], "read", s.fd, out.err) IN
         IF out.err = EINTR
         THEN /\ th' = [th EXCEPT ![t] = r]
              /\ UNCHANGED <<mx, ret>>
         ELSE /\ mx' = FALSE
              /\ Return(t, [r EXCEPT !.n = Normalize(out.n)], out.err)
    /\ UNCHANGED <<s, held, live, excl, dev, acquired, closedSince, scn>>

\* ------------------------------------------------------------------ Write
\* The check Write makes without the lock.
WriteNotOpen(h) == ~h.opened

\* if !s.opened { return 0, ErrNotOpen }
CallWrite(t) ==
    /\ CanCall(t)
    /\ IF WriteNotOpen(s)
       THEN Done(t, Begin("Write"), ErrNotOpen)
       ELSE /\ th' = [th EXCEPT ![t] = [Begin("Write") EXCEPT !.pc = "w_write"]]
            /\ ret' = [ret EXCEPT ![t] = NoRet]
    /\ UNCHANGED <<s, mx, held, live, excl, dev, acquired, closedSince, scn>>

\* n, err = unix.Write(s.fd, p); if n < 0 { n = 0 }
WriteSyscall(t) ==
    /\ th[t].pc = "w_write"
    /\ \E out \in TransferOutcomes(s.fd) :
         Return(t, [Sys(th[t], "write", s.fd, out.err) EXCEPT
                      !.n = Normalize(out.n)], out.err)
    /\ UNCHANGED <<s, mx, held, live, excl, dev, acquired, closedSince, scn>>

\* ------------------------------------------------------------------ Flush
\* ioctl(s.fd, TCFLSH, TCIOFLUSH)
Flush(t) ==
    /\ CanCall(t)
    /\ \E e \in IoctlOutcomes(s.fd) :
         Done(t, Sys(Begin("Flush"), "ioctl TCFLSH", s.fd, e), e)
    /\ UNCHANGED <<s, mx, held, live, excl, dev, acquired, closedSince, scn>>

\* ------------------------------------------------------------------- Next
Next ==
    \E t \in Threads :
        \/ \E cfg \in scn.configs : CallOpenPort(t, cfg)
        \/ OpenPortAfterOpen(t)
        \/ OpenPortAfterSet(t)
        \/ OpenPortNonblock(t)
        \/ CallOpen(t)
        \/ OpenLock(t)
        \/ OpenUnlockForClose(t)
        \/ OpenRelock(t)
        \/ OpenProbe(t)
        \/ OpenSyscall(t)
        \/ OpenExclusive(t)
        \/ CallClose(t)
        \/ CloseLock(t)
        \/ CloseRelease(t)
        \/ CloseSyscall(t)
        \/ SetTermiosLock(t)
        \/ SetTermiosIoctl(t)
        \/ GetTermiosLock(t)
        \/ GetTermiosIoctl(t)
        \/ \E a \in scn.pargs : CallSetParity(t, a[1], a[2])
        \/ SetParityRewrite(t)
        \/ SetParityStore(t)
        \/ CallRead(t)
        \/ ReadLock(t)
        \/ ReadSelect(t)
        \/ ReadOnce(t)
        \/ ReadLoop(t)
        \/ CallWrite(t)
        \/ WriteSyscall(t)
        \/ Flush(t)

\* One caller at a time: every operation runs to its return before the next.
Spec == Init /\ [][Next]_vars

\* ================================================================= claims
\* An operation op of thread t has returned and nothing has been called since.
Returned(t, op) == Quiescent /\ ret[t].pc = "returned" /\ ret[t].op = op

\* The descriptors of this handle that are still open.
Owned == acquired \cap live

\* C1: every failure after the descriptor was acquired during opening (TIOCEXCL
\* failing in Open, SetTermios or SetNonblock failing in openPort) closes the
\* descriptor and resets the handle to fd = 0, opened = false before the error
\* is returned.  (The claim as stated; the code violates it.)
C1_FailedOpenReleasesDescriptor ==
    \A t \in Threads :
        (/\ Returned(t, "OpenPort") \/ Returned(t, "Open")
         /\ ret[t].err # "nil"
         /\ ret[t].got # 0)
        => /\ ret[t].got \notin live
           /\ s.fd = 0
           /\ ~s.opened

\* C2: whenever no operation is in progress, opened = true implies that fd is
\* a live descriptor on which exclusive access was set, and opened = false
\* implies that every descriptor the handle acquired is closed and its
\* exclusive access released.  (The claim as stated; the code violates it.)
C2_OpenedIffExclusiveDescriptor ==
    Quiescent =>
        /\ s.opened => s.fd \in live /\ s.fd \in excl
        /\ ~s.opened => Owned = {} /\ acquired \cap excl = {}

\* C3: Close on a handle with opened = false returns ErrPortNotInitialized and
\* changes nothing; Close on an open handle whose OS calls succeed returns nil
\* and leaves opened = false and fd = 0; a second Close with no Open in
\* between returns ErrPortNotInitialized.
C3_CloseResults ==
    \A t \in Threads :
        Returned(t, "Close") =>
            /\ ~ret[t].pre.s.opened =>
                  /\ ret[t].err = ErrPortNotInitialized
                  /\ ret[t].sys = {}
                  /\ s = ret[t].pre.s
                  /\ live = ret[t].pre.live
                  /\ excl = ret[t].pre.excl
                  /\ dev = ret[t].pre.dev
            /\ (ret[t].pre.s.opened /\ ~ret[t].osfail) =>
                  /\ ret[t].err = "nil"
                  /\ ~s.opened
                  /\ s.fd = 0
            /\ ret[t].pre.closedSince => ret[t].err = ErrPortNotInitialized

\* C3's case: a handle that was opened and whose descriptor was closed is
\* closed a second time, and the second Close reports ErrPortNotInitialized.
C3_Witness ==
    \E t \in Threads :
        /\ Returned(t, "Close")
        /\ ret[t].pre.closedSince
        /\ acquired # {}
        /\ Owned = {}
        /\ ret[t].err = ErrPortNotInitialized

\* C4: Read and Write on a handle whose opened flag is false return
\* (0, ErrNotOpen), issue no OS call and leave the handle unchanged, with and
\* without a read timeout configured.
C4_NotOpenNoSyscall ==
    \A t \in Threads :
        (/\ Returned(t, "Read") \/ Returned(t, "Write")
         /\ ~ret[t].pre.s.opened)
        => /\ ret[t].n = 0
           /\ ret[t].err = ErrNotOpen
           /\ ret[t].sys = {}
           /\ s = ret[t].pre.s
           /\ live = ret[t].pre.live
           /\ excl = ret[t].pre.excl
           /\ dev = ret[t].pre.dev

\* C4's case: a Read on a closed handle that has a read timeout configured
\* has returned ErrNotOpen.
C4_Witness ==
    \E t \in Threads :
        /\ Returned(t, "Read")
        /\ ~ret[t].pre.s.opened
        /\ ret[t].pre.s.conf.ReadTimeout > 0
        /\ ret[t].err = ErrNotOpen

\* The symbols getTermiosFor accepts.
ValidParities == {"N", "E", "O", "S", "M", "G"}
ValidStopBits == {0, 1, 2}
ValidFlows == {FlowNone, FlowHardware, FlowSoft}

\* C5: for every parity, stop-bit or flow value outside the accepted sets,
\* OpenPort returns a configuration error without probing or opening the
\* device, and SetParity returns a configuration error without writing the
\* control settings and without changing the stored parity and stop bits.
\* (The claim as stated; the code violates it.)
C5_InvalidSymbolsRejected ==
    \A t \in Threads :
        /\ (/\ Returned(t, "OpenPort")
            /\ \/ ret[t].cfg.Parity \notin ValidParities
               \/ ret[t].cfg.StopBits \notin ValidStopBits
               \/ ret[t].cfg.Flow \notin ValidFlows)
           => /\ ret[t].err \in ConfigErrors
              /\ ret[t].sys = {}
              /\ ret[t].got = 0
        /\ (/\ Returned(t, "SetParity")
            /\ \/ ret[t].parity \notin ValidParities
               \/ ret[t].stopbits \notin ValidStopBits)
           => /\ ret[t].err \in ConfigErrors
              /\ \A c \in ret[t].sys : c.call # "ioctl TCSETS"
              /\ dev = ret[t].pre.dev
              /\ s.conf = ret[t].pre.s.conf

\* C6: Open on an already open handle releases the descriptor it held before
\* it requests a new one: when it returns, the handle owns at most one live
\* descriptor (the one in fd) and none it acquired earlier is still open,
\* whatever the forced Close returned.  (The claim as stated; the code
\* violates it.)
C6_ReopenLeavesOneDescriptor ==
    \A t \in Threads :
        (/\ Returned(t, "Open")
         /\ ret[t].pre.s.opened
         /\ ret[t].pre.s.fd \in ret[t].pre.excl)
        => /\ s.opened => Owned = {s.fd}
           /\ ~s.opened => Owned = {}

\* C7: the byte count Read and Write return is never negative, on the timeout
\* path of Read, on its no-timeout path and in Write.  (The claim as stated;
\* the code violates it.)
C7_CountNeverNegative ==
    \A t \in Threads :
        (Returned(t, "Read") \/ Returned(t, "Write")) => ret[t].n >= 0

\* C8: EINTR from the readiness wait or from the read call is retried and is
\* never the error Read returns, with and without a read timeout.  (The claim
\* as stated; the code violates it.)
C8_EintrNeverReturned ==
    \A t \in Threads : Returned(t, "Read") => ret[t].err # EINTR

\* C9: with ReadTimeout a positive duration d, the timeout handed to select
\* is exactly d, so a Read that times out has waited d.  (The claim as
\* stated; the code violates it.)
C9_SelectWaitsReadTimeout ==
    \A t \in Threads :
        (Returned(t, "Read") /\ ret[t].err = ErrReadTimeout)
        => TimevalMs(ret[t].waited) = s.conf.ReadTimeout

\* C10: SetParity on an open handle succeeds for every parity symbol OpenPort
\* accepts and every stop-bit value in {0,1,2} (its OS calls succeeding),
\* rewrites the device's settings by the translator's parity and stop-bit
\* rules and stores the new parity and stop bits.  (The claim as stated; the
\* code violates it.)
C10_SetParityFollowsTranslator ==
    \A t \in Threads :
        (/\ Returned(t, "SetParity")
         /\ ret[t].pre.s.opened
         /\ ~ret[t].osfail
         /\ ret[t].parity \in ValidParities
         /\ ret[t].stopbits \in ValidStopBits)
        => /\ ret[t].err = "nil"
           /\ dev = StopBitsFor(ParityFor(ret[t].pre.dev, ret[t].parity).t,
                                ret[t].stopbits).t
           /\ s.conf.Parity = ret[t].parity
           /\ s.conf.StopBits = ret[t].stopbits

\* C11: OpenPort with a non-zero baud rate that has no entry in baudRates
\* returns an error before any OS call is made, and never opens the device
\* with a zero baud field.  (The claim as stated; the code violates it.)
C11_UnsupportedBaudRejected ==
    \A t \in Threads :
        (/\ Returned(t, "OpenPort")
         /\ ret[t].cfg.Baud # 0
         /\ ret[t].cfg.Baud \notin DOMAIN baudRates)
        => /\ ret[t].err # "nil"
           /\ ret[t].sys = {}
           /\ ret[t].got = 0

\* ------------------------------------------------ the translator by itself
\* The rates getTermiosFor translates: the table's, and 0 for the default.
SupportedBauds == DOMAIN baudRates \cup {0}
\* Every valid (baud, parity, stop bits, flow).
TranslatorConfigs ==
    {[BaseConfig EXCEPT !.Baud = b, !.Parity = p, !.StopBits = sb, !.Flow = f] :
        b \in SupportedBauds, p \in ValidParities,
        sb \in ValidStopBits, f \in ValidFlows}

\* One configuration is drawn; nothing is opened.
TranslatorInit ==
    /\ s = FreshPort
    /\ mx = FALSE
    /\ held = FALSE
    /\ live = {}
    /\ excl = {}
    /\ dev = DevInit
    /\ acquired = {}
    /\ closedSince = FALSE
    /\ th = [t \in Threads |-> IdleThread]
    /\ ret = [t \in Threads |-> NoRet]
    /\ \E c \in TranslatorConfigs :
         scn = [procs |-> {1}, configs |-> {c}, pargs |-> {}]

\* t, err := getTermiosFor(cfg)
Translate(t, cfg) ==
    /\ t \in scn.procs
    /\ Idle(t)
    /\ ret[t].pc = "none"
    /\ LET r == getTermiosFor(cfg) IN
       ret' = [ret EXCEPT ![t] =
                 [IdleThread EXCEPT !.pc = "returned", !.op = "getTermiosFor",
                                    !.cfg = cfg, !.t = r.t, !.err = r.err]]
    /\ UNCHANGED <<s, mx, held, live, excl, dev, acquired, closedSince, th, scn>>

TranslatorNext == \E t \in Threads : \E cfg \in scn.configs : Translate(t, cfg)

\* getTermiosFor applied to one valid configuration.
TranslatorSpec == TranslatorInit /\ [][TranslatorNext]_vars

\* What a configuration asks for: baud 0 is 19200, stop bits 0 is 1.
Semantic(cfg) ==
    [baud |-> IF cfg.Baud = 0 THEN 19200 ELSE cfg.Baud,
     parity |-> cfg.Parity,
     stopbits |-> IF cfg.StopBits = 0 THEN 1 ELSE cfg.StopBits,
     flow |-> cfg.Flow]

\* The settings of every valid configuration.
TranslatorTable == [c \in TranslatorConfigs |-> getTermiosFor(c).t]

\* The number a flag word stands for.
RECURSIVE Word(_)
Word(bits) ==
    IF bits = {} THEN 0
    ELSE LET i == CHOOSE k \in bits : TRUE IN 2 ^ i + Word(bits \ {i})

\* c_cflag's speed field, CBAUD 0x100f.
CBAUD == {0, 1, 2, 3, 12}

\* The reading of settings as termios(3) defines it, with input parity
\* checking telling G from S.
Decode(t) ==
    LET code == Word(t.Cflag \cap CBAUD)
        on(f) == f \subseteq t.Cflag
    IN  [baud |-> IF \E b \in DOMAIN baudRates : baudRates[b] = code
                  THEN CHOOSE b \in DOMAIN baudRates : baudRates[b] = code
                  ELSE 0,
         parity |-> IF ~on(PARENB) THEN "N"
                    ELSE IF ~on(CMSPAR) THEN (IF on(PARODD) THEN "O" ELSE "E")
                    ELSE IF on(PARODD) THEN "M"
                    ELSE IF INPCK \subseteq t.Iflag THEN "G" ELSE "S",
         stopbits |-> IF on(CSTOPB) THEN 2 ELSE 1,
         flow |-> IF on(CRTSCTS) THEN FlowHardware
                  ELSE IF IXON \subseteq t.Iflag THEN FlowSoft ELSE FlowNone]

OpenedConfigs == {[BaseConfig EXCEPT !.ReadTimeout = d] : d \in Timeouts}
\* The arguments the concurrent callers hand to SetParity.
PeerParityArgs == {<<"E", 1>>, <<"O", 2>>}

\* OpenPort(c) has succeeded with descriptor 3; both threads hold the handle.
OpenedInit ==
    /\ \E c \in OpenedConfigs :
         /\ s = [fd |-> 3, opened |-> TRUE, conf |-> c]
         /\ dev = getTermiosFor(c).t
    /\ mx = FALSE
    /\ held = TRUE
    /\ live = {3}
    /\ excl = {3}
    /\ acquired = {3}
    /\ closedSince = FALSE
    /\ th = [t \in Threads |-> IdleThread]
    /\ ret = [t \in Threads |-> NoRet]
    /\ scn = [procs |-> Threads, configs |-> {}, pargs |-> PeerParityArgs]

\* Two threads that read, write and set the parity, each at its own pace.
PeerNext ==
    \E t \in Threads :
        \/ CallRead(t)
        \/ ReadLock(t)
        \/ ReadSelect(t)
        \/ ReadOnce(t)
        \/ ReadLoop(t)
        \/ CallWrite(t)
        \/ WriteSyscall(t)
        \/ \E a \in scn.pargs : CallSetParity(t, a[1], a[2])
        \/ GetTermiosLock(t)
        \/ GetTermiosIoctl(t)
        \/ SetParityRewrite(t)
        \/ SetTermiosLock(t)
        \/ SetTermiosIoctl(t)
        \/ SetParityStore(t)

PeerSpec == OpenedInit /\ [][PeerNext]_vars

\* C13: SetParity's read-modify-write is atomic, so once the concurrent
\* SetParity calls have returned, the parity and stop bits stored in s.conf
\* are those encoded in the settings last written to the device.  (The claim
\* as stated; the code violates it.)
C13_SetParityAtomic ==
    Quiescent =>
        SetParityTermios(dev, s.conf.Parity, s.conf.StopBits).t = dev

\* C14: in Write and on the no-timeout path of Read the handle lock is not
\* held while the write or read syscall is in progress.  (The claim as
\* stated; the code violates it.)
C14_NoLockDuringTransfer ==
    \A t \in Threads : th[t].pc \in {"w_write", "r_read"} => ~mx

\* Two threads that read and write; the second also closes and reopens.
RaceNext ==
    \/ \E t \in Threads :
        \/ CallRead(t)
        \/ ReadLock(t)
        \/ ReadSelect(t)
        \/ ReadOnce(t)
        \/ ReadLoop(t)
        \/ CallWrite(t)
        \/ WriteSyscall(t)
    \/ CallClose(2)
    \/ CloseLock(2)
    \/ CloseRelease(2)
    \/ CloseSyscall(2)
    \/ CallOpen(2)
    \/ OpenLock(2)
    \/ OpenUnlockForClose(2)
    \/ OpenRelock(2)
    \/ OpenProbe(2)
    \/ OpenSyscall(2)
    \/ OpenExclusive(2)

RaceSpec == OpenedInit /\ [][RaceNext]_vars

\* The positions of Read between its opened check and its return.
ReadSection == {"r_select", "r_read1", "r_read"}
\* The positions of Close and of Open between Lock and Unlock.
CloseSection == {"c_nxcl", "c_close"}
OpenSection == {"o_unlock", "o_lsof", "o_open", "o_excl"}
\* The threads inside a section.
Inside(section) == {t \in Threads : th[t].pc \in section}

\* C15: at most one Read is between its opened check and its return, no
\* critical section of Close or Open overlaps it, and a Write never waits:
\* it can be called, and can issue its write syscall, whatever a Read holds.
C15_OneReaderWritesFree ==
    /\ Cardinality(Inside(ReadSection \cup CloseSection \cup OpenSection)) <= 1
    /\ Inside(ReadSection) # {} => mx
    /\ \A t \in Threads :
         /\ CanCall(t) => ENABLED CallWrite(t)
         /\ th[t].pc = "w_write" => ENABLED WriteSyscall(t)

\* C15's case: one thread is blocked in the read call of its Read, holding
\* the lock, while the other is in its write syscall.
C15_Witness ==
    \E a, b \in Threads :
        /\ th[a].pc = "r_read"
        /\ mx
        /\ th[b].pc = "w_write"

\* Thread 1 reads while thread 2 closes.
BlockedReadNext ==
    \/ CallRead(1)
    \/ ReadLock(1)
    \/ ReadSelect(1)
    \/ ReadOnce(1)
    \/ ReadLoop(1)
    \/ CallClose(2)
    \/ CloseLock(2)
    \/ CloseRelease(2)
    \/ CloseSyscall(2)

\* A thread waiting in Lock gets the lock if it is free again and again
\* (sync.Mutex hands it to a starving waiter), select returns (at the latest
\* when its timeout runs out) and so do the read after it and Close's ioctl
\* and close; the read of the no-timeout path returns only when data or an
\* error arrives, which may be never.
BlockedReadFairness ==
    /\ SF_vars(ReadLock(1))
    /\ WF_vars(ReadSelect(1))
    /\ WF_vars(ReadOnce(1))
    /\ SF_vars(CloseLock(2))
    /\ WF_vars(CloseRelease(2))
    /\ WF_vars(CloseSyscall(2))

BlockedReadSpec ==
    OpenedInit /\ [][BlockedReadNext]_vars /\ BlockedReadFairness

\* C16: under fair scheduling, with Close's own OS calls returning, a Close
\* that was called returns, even while another thread's Read is blocked
\* waiting for data that never arrives.  (The claim as stated; the code
\* violates it.)
C16_CloseReturns ==
    \A t \in Threads : (th[t].op = "Close" /\ ~Idle(t)) ~> Idle(t)

\* The parity bits of c_cflag and the parity flags of c_iflag.
ParityFlags == PARENB \cup PARODD \cup CMSPAR
InputParityFlags == IGNPAR \cup INPCK \cup PARMRK
\* The c_cflag parity bits of each mode, g being those of mode G.
ParityBitsOf(parity, g) ==
    CASE parity = "N" -> {}
      [] parity = "E" -> PARENB
      [] parity = "O" -> PARENB \cup PARODD
      [] parity = "S" -> PARENB \cup CMSPAR
      [] parity = "M" -> PARENB \cup PARODD \cup CMSPAR
      [] parity = "G" -> g
\* The settings t carry the parity bits of the mode, and the input flags of
\* the guarded mode for G only.
ParityEncoded(t, parity, g) ==
    /\ t.Cflag \cap ParityFlags = ParityBitsOf(parity, g)
    /\ t.Iflag \cap InputParityFlags =
          IF parity = "G" THEN INPCK \cup PARMRK ELSE IGNPAR

\* C17 as stated: getTermiosFor sets for N no parity bit, for E enable, for O
\* enable+odd, for S enable+space-marking, for M enable+odd+space-marking,
\* for G the bits of M with input parity checking and parity-error marking
\* set and ignore-parity-errors cleared; N, E, O, S, M keep
\* ignore-parity-errors set.
C17_GuardedSetsMarkBits ==
    \A t \in Threads :
        Returned(t, "getTermiosFor") =>
            ParityEncoded(ret[t].t, ret[t].cfg.Parity,
                          PARENB \cup PARODD \cup CMSPAR)

\* C17 amended: as stated, except that G sets enable+space-marking with odd
\* cleared (the bits of S), not the bits of M.
C17_GuardedSetsSpaceBits ==
    \A t \in Threads :
        Returned(t, "getTermiosFor") =>
            ParityEncoded(ret[t].t, ret[t].cfg.Parity, PARENB \cup CMSPAR)

\* C17's case: parity G was translated, with two stop bits and hardware flow
\* control around it.
C17_Witness ==
    \E t \in Threads :
        /\ Returned(t, "getTermiosFor")
        /\ ret[t].cfg.Parity = "G"
        /\ ret[t].cfg.StopBits = 2
        /\ ret[t].cfg.Flow = FlowHardware
        /\ INPCK \subseteq ret[t].t.Iflag

\* C18: under any interleaving of Write with Close and Open, the write
\* syscall is issued on a descriptor the handle owns at that moment, never on
\* descriptor 0 or on one that Close has released.  (The claim as stated; the
\* code violates it.)
C18_WriteOnOwnedDescriptor ==
    [][\A t \in Threads :
          (th[t].pc = "w_write" /\ th'[t].pc # "w_write") => s.fd \in Owned]_vars

\* C19: once Read holds the lock and has passed its opened check, the
\* descriptor its select and read calls use is the one the handle owns then,
\* on the timeout path (the local fd) and on the no-timeout path (s.fd); it is
\* never the descriptor of an earlier session, nor 0.  (The claim as stated;
\* the code violates it.)
C19_ReadOnOwnedDescriptor ==
    \A t \in Threads :
        /\ th[t].pc \in {"r_select", "r_read1"} =>
              th[t].fd = s.fd /\ th[t].fd \in Owned
        /\ th[t].pc = "r_read" => s.fd \in Owned

\* C20: Flush on a handle with opened = false issues no OS call and returns an
\* error, and Flush never issues its ioctl on descriptor 0.  (The claim as
\* stated; the code violates it.)
C20_FlushClosedNoSyscall ==
    \A t \in Threads :
        Returned(t, "Flush") =>
            /\ ~ret[t].pre.s.opened => ret[t].sys = {} /\ ret[t].err # "nil"
            /\ \A c \in ret[t].sys : c.fd # 0

\* The positions of SetTermios and GetTermios between Lock and Unlock.
TermiosSection == {"st_ioctl", "gt_ioctl"}
\* Every position at which a thread holds s.mx.
LockedSection == ReadSection \cup CloseSection \cup OpenSection \cup TermiosSection
\* The positions at which a thread waits in s.mx.Lock().
LockCalls == {"o_lock", "o_relock", "c_lock", "st_lock", "gt_lock", "r_lock"}

\* C21: the handle lock is balanced in Open, Close, Read, SetTermios and
\* GetTermios on every return path: the lock is locked exactly while one
\* thread is between a Lock and the matching Unlock (so no Unlock meets a
\* free lock and no return leaves it locked), a caller by itself never waits
\* in Lock for a lock its own operation holds, and when every operation has
\* returned the lock is free.
C21_LockBalanced ==
    /\ Cardinality(Inside(LockedSection)) = IF mx THEN 1 ELSE 0
    /\ \A t \in Threads :
         (th[t].pc \in LockCalls /\ mx) => Inside(LockedSection) \ {t} # {}
    /\ Quiescent => ~mx

\* C21's case: an Open on an already open handle has released the lock,
\* run its forced Close, taken the lock again and returned an error.
C21_Witness ==
    \E t \in Threads :
        /\ Returned(t, "Open")
        /\ ret[t].pre.s.opened
        /\ \E c \in ret[t].sys : c.call = "ioctl TIOCNXCL"
        /\ ret[t].err # "nil"
        /\ ~mx

====
